---- MODULE Spec2Model ----
(***************************************************************************)
(* Model of crevice's std430::Writer (src/std430/writer.rs): a cursor      *)
(* (`offset`) over a byte sink (`writer`) that pads every value with zero  *)
(* bytes up to the value's alignment and then appends the value's bytes.   *)
(*                                                                         *)
(* The sink is any std::io::Write.  It is modelled as a sink that accepts  *)
(* `limit` bytes and then rejects (`limited`), or as one that never        *)
(* rejects.  A rejected write_all either keeps the part that still fitted  *)
(* (`partial`, the behaviour of `&mut [u8]`) or keeps nothing, and the     *)
(* rejection is either permanent or transient (`recover`).                 *)
(***************************************************************************)
EXTENDS Integers, Sequences, FiniteSets, TLC

VARIABLES writer, offset, held, partial, recover, calls, lens, failed, sum, last

vars == <<writer, offset, held, partial, recover, calls, lens, failed, sum, last>>

\* ---- bounds ----
MaxCap == 12
MaxCalls == 2
MaxItems == 2
MaxVal == 1
MaxLens == 2
MaxHeld == 1

\* ---- the written types: (ALIGNMENT, size_of) of u32, vec2, vec3 and the
\* ---- PointLight struct of the length-prefixed example
Types ==
  { [A |-> 4,  S |-> 4],
    [A |-> 8,  S |-> 8],
    [A |-> 16, S |-> 12],
    [A |-> 16, S |-> 28] }

NoType == [A |-> 1, S |-> 0]

Vals == 0 .. MaxVal

Items == UNION { [1 .. n -> Vals] : n \in 0 .. MaxItems }

\* bytes_of(&value): the S bytes of value v's GPU representation
bytes_of(v, S) == [i \in 1 .. S |-> (v * i) % 256]

\* crate::internal::align_offset
align_offset(off, alignment) == (alignment - (off % alignment)) % alignment

\* ---- the sink ----
\* self.writer.write_all(buf) on the writer record `self`; `ok` is the result
\* of this write_all, `sent`/`late`/`err` count what the current call did.
write_all(self, buf) ==
  LET fits == (~self.limited) \/ Len(buf) <= self.limit
      k    == IF fits THEN Len(buf) ELSE IF partial THEN self.limit ELSE 0
  IN  [self EXCEPT
         !.bytes   = @ \o SubSeq(buf, 1, k),
         !.limit   = IF ~self.limited THEN 0
                     ELSE IF (~fits) /\ recover THEN 0 ELSE @ - k,
         !.limited = @ /\ (fits \/ ~recover),
         !.ok      = fits,
         !.sent    = @ + 1,
         !.late    = @ + (IF self.err THEN 1 ELSE 0),
         !.err     = @ \/ ~fits]

\* mutant: the padding byte is 0xFF instead of zero
RECURSIVE pad_loop_ff(_, _)
pad_loop_ff(self, n) ==
  IF n = 0 THEN self
  ELSE LET r == write_all(self, <<255>>)
       IN  IF r.ok THEN pad_loop_ff(r, n - 1) ELSE r

\* mutant: the result of the padding write_all is dropped instead of propagated
RECURSIVE pad_loop_ignore(_, _)
pad_loop_ignore(self, n) ==
  IF n = 0 THEN self
  ELSE pad_loop_ignore([write_all(self, <<0>>) EXCEPT !.ok = TRUE], n - 1)

\* for _ in 0..padding { self.writer.write_all(&[0])?; }
RECURSIVE pad_loop(_, _)
pad_loop(self, n) ==
  IF n = 0 THEN self
  ELSE LET r == write_all(self, <<0>>)
       IN  IF r.ok THEN pad_loop(r, n - 1) ELSE r

\* mutant: write_here is taken before the padding is added to the offset
write_std430_ret_pre(self, T, v) ==
  LET padding == align_offset(self.offset, T.A)
      p       == pad_loop([self EXCEPT !.ok = TRUE], padding)
  IN  IF ~p.ok THEN p
      ELSE LET q == [p EXCEPT !.offset = @ + padding]
               r == write_all(q, bytes_of(v, T.S))
           IN  IF ~r.ok THEN r
               ELSE [r EXCEPT !.ret = self.offset, !.offset = @ + T.S]

\* mutant: the padding is written but not added to the offset
write_std430_no_pad_count(self, T, v) ==
  LET padding == align_offset(self.offset, T.A)
      p       == pad_loop([self EXCEPT !.ok = TRUE], padding)
  IN  IF ~p.ok THEN p
      ELSE LET r == write_all(p, bytes_of(v, T.S))
           IN  IF ~r.ok THEN r
               ELSE [r EXCEPT !.ret = r.offset + padding, !.offset = @ + T.S]

\* mutant: the padding is added to the offset before it is written
write_std430_count_first(self, T, v) ==
  LET padding == align_offset(self.offset, T.A)
      q       == [self EXCEPT !.ok = TRUE, !.offset = @ + padding]
      p       == pad_loop(q, padding)
  IN  IF ~p.ok THEN p
      ELSE LET r == write_all(p, bytes_of(v, T.S))
           IN  IF ~r.ok THEN r
               ELSE [r EXCEPT !.ret = r.offset, !.offset = @ + T.S]

\* mutant: the size is added to the offset before the value is written
write_std430_size_first(self, T, v) ==
  LET padding == align_offset(self.offset, T.A)
      p       == pad_loop([self EXCEPT !.ok = TRUE], padding)
  IN  IF ~p.ok THEN p
      ELSE LET q == [p EXCEPT !.offset = @ + padding + T.S]
               r == write_all(q, bytes_of(v, T.S))
           IN  IF ~r.ok THEN r
               ELSE [r EXCEPT !.ret = r.offset - T.S]

\* mutant: the value is written before its padding
write_std430_value_first(self, T, v) ==
  LET padding == align_offset(self.offset, T.A)
      r       == write_all([self EXCEPT !.ok = TRUE], bytes_of(v, T.S))
  IN  IF ~r.ok THEN r
      ELSE LET p == pad_loop(r, padding)
           IN  IF ~p.ok THEN p
               ELSE [p EXCEPT !.ret = self.offset + padding,
                              !.offset = @ + padding + T.S]

\* mutant: the padding is assigned to the offset instead of added to it
write_std430_assign_pad(self, T, v) ==
  LET padding == align_offset(self.offset, T.A)
      p       == pad_loop([self EXCEPT !.ok = TRUE], padding)
  IN  IF ~p.ok THEN p
      ELSE LET q == [p EXCEPT !.offset = IF padding > 0 THEN padding ELSE @]
               r == write_all(q, bytes_of(v, T.S))
           IN  IF ~r.ok THEN r
               ELSE [r EXCEPT !.ret = r.offset, !.offset = @ + T.S]

\* mutant: the padding loop runs over 0..=padding
write_std430_pad_inclusive(self, T, v) ==
  LET padding == align_offset(self.offset, T.A)
      p       == pad_loop([self EXCEPT !.ok = TRUE],
                          IF padding > 0 THEN padding + 1 ELSE 0)
  IN  IF ~p.ok THEN p
      ELSE LET q == [p EXCEPT !.offset = @ + padding]
               r == write_all(q, bytes_of(v, T.S))
           IN  IF ~r.ok THEN r
               ELSE [r EXCEPT !.ret = r.offset, !.offset = @ + T.S]

\* mutant: the value is padded at its end up to its alignment
write_std430_trailing_pad(self, T, v) ==
  LET padding == align_offset(self.offset, T.A)
      p       == pad_loop([self EXCEPT !.ok = TRUE], padding)
  IN  IF ~p.ok THEN p
      ELSE LET q == [p EXCEPT !.offset = @ + padding]
               r == write_all(q, bytes_of(v, T.S))
           IN  IF ~r.ok THEN r
               ELSE LET e == [r EXCEPT !.ret = r.offset, !.offset = @ + T.S]
                        t == align_offset(e.offset, T.A)
                        z == pad_loop(e, t)
                    IN  IF ~z.ok THEN z ELSE [z EXCEPT !.offset = @ + t]

\* mutant: padding and size are added to the offset in one step, after the
\* value is written
write_std430_one_step(self, T, v) ==
  LET padding == align_offset(self.offset, T.A)
      p       == pad_loop([self EXCEPT !.ok = TRUE], padding)
  IN  IF ~p.ok THEN p
      ELSE LET r == write_all(p, bytes_of(v, T.S))
           IN  IF ~r.ok THEN r
               ELSE [r EXCEPT !.ret = r.offset + padding,
                              !.offset = @ + padding + T.S]

\* Writer::write_std430
write_std430(self, T, v) ==
  LET padding == align_offset(self.offset, T.A)
      p       == pad_loop([self EXCEPT !.ok = TRUE], padding)
  IN  IF ~p.ok THEN p
      ELSE LET q == [p EXCEPT !.offset = @ + padding]
               r == write_all(q, bytes_of(v, T.S))
           IN  IF ~r.ok THEN r
               ELSE [r EXCEPT !.ret = r.offset, !.offset = @ + T.S]

\* mutant: a writer whose offset disagrees with its sink refuses to write
write_poisoned(self, T, v) ==
  IF self.offset # Len(self.bytes) THEN [self EXCEPT !.ok = FALSE]
  ELSE write_std430(self, T, v)

\* Writer::write
write(self, T, v) == write_std430(self, T, v)

\* mutant: the result of an item's write is dropped instead of propagated
RECURSIVE iter_loop_swallow(_, _, _)
iter_loop_swallow(self, T, items) ==
  IF items = <<>> THEN self
  ELSE LET r == write_std430([self EXCEPT !.pulled = @ + 1], T, Head(items))
       IN  iter_loop_swallow([r EXCEPT !.ok = TRUE], T, Tail(items))

\* for item in iter { item.write_std430(self)?; }
RECURSIVE iter_loop(_, _, _)
iter_loop(self, T, items) ==
  IF items = <<>> THEN self
  ELSE LET r == write_std430([self EXCEPT !.pulled = @ + 1], T, Head(items))
       IN  IF r.ok THEN iter_loop(r, T, Tail(items)) ELSE r

\* mutant: the writer is aligned for T before the iterator is looked at
write_iter_pads_empty(self, T, items) ==
  LET padding == align_offset(self.offset, T.A)
      p       == pad_loop([self EXCEPT !.ok = TRUE], padding)
      start   == [p EXCEPT !.offset = @ + padding, !.ret = self.offset + padding]
  IN  IF ~p.ok THEN p
      ELSE LET rest == iter_loop(start, T, items)
           IN  IF ~rest.ok THEN rest ELSE [rest EXCEPT !.ret = start.ret]

\* mutant: the offset of the last item is returned
write_iter_ret_last(self, T, items) ==
  LET start == [self EXCEPT !.ok = TRUE, !.ret = self.offset]
      first == IF items # <<>> THEN write_std430(self, T, Head(items)) ELSE start
  IN  IF ~first.ok THEN first
      ELSE iter_loop(first, T, IF items # <<>> THEN Tail(items) ELSE <<>>)

\* mutant: the error of the first item is not propagated
write_iter_no_question(self, T, items) ==
  LET start == [self EXCEPT !.ok = TRUE, !.ret = self.offset]
      first == IF items # <<>> THEN write_std430(self, T, Head(items)) ELSE start
      rest  == iter_loop(first, T, IF items # <<>> THEN Tail(items) ELSE <<>>)
  IN  IF ~rest.ok THEN rest ELSE [rest EXCEPT !.ret = first.ret]

\* Writer::write_iter
write_iter(self, T, items) ==
  LET start == [self EXCEPT !.ok = TRUE, !.ret = self.offset]
      first == IF items # <<>>
               THEN write_std430([self EXCEPT !.pulled = @ + 1], T, Head(items))
               ELSE start
  IN  IF ~first.ok THEN first
      ELSE LET rest == iter_loop(first, T, IF items # <<>> THEN Tail(items) ELSE <<>>)
           IN  IF ~rest.ok THEN rest ELSE [rest EXCEPT !.ret = first.ret]

\* mutant: len reports the length of the sink
len_sink(self) == Len(self.bytes)

\* Writer::len
len(self) == self.offset

\* ---- the state machine ----
\* the writer as the operators see it, at the start of a call
Self ==
  [bytes |-> writer.bytes, limit |-> writer.limit, limited |-> writer.limited,
   offset |-> offset, ok |-> TRUE, ret |-> 0, sent |-> 0, late |-> 0, err |-> FALSE,
   pulled |-> 0]

\* padding plus size of n values of type T written from offset o
RECURSIVE Contribution(_, _, _)
Contribution(o, T, n) ==
  IF n = 0 THEN 0
  ELSE LET c == align_offset(o, T.A) + T.S
       IN  c + Contribution(o + c, T, n - 1)

Record(op, T, items, r) ==
  [op |-> op, T |-> T, items |-> items,
   preOffset |-> offset, preBytes |-> writer.bytes,
   preLimit |-> writer.limit, preLimited |-> writer.limited,
   ok |-> r.ok, ret |-> IF r.ok THEN r.ret ELSE 0,
   sent |-> r.sent, late |-> r.late, pulled |-> r.pulled]

Commit(op, T, items, r) ==
  /\ writer' = [bytes |-> r.bytes, limit |-> r.limit, limited |-> r.limited]
  /\ offset' = r.offset
  /\ calls' = calls + 1
  /\ lens' = 0
  /\ failed' = (failed \/ ~r.ok)
  /\ sum' = IF r.ok THEN sum + Contribution(offset, T, Len(items)) ELSE sum
  /\ last' = Record(op, T, items, r)
  /\ UNCHANGED <<held, partial, recover>>

\* mutant: new takes the length the sink already has as its offset
Init_from_sink ==
  /\ \E lim \in 0 .. MaxCap, ld \in BOOLEAN :
        /\ (~ld) => lim = 0
        /\ writer = [bytes |-> <<>>, limit |-> lim, limited |-> ld]
  /\ held \in 0 .. MaxHeld
  /\ offset = held
  /\ partial \in BOOLEAN
  /\ recover \in BOOLEAN
  /\ calls = 0
  /\ lens = 0
  /\ failed = FALSE
  /\ sum = held
  /\ last = [op |-> "new", T |-> NoType, items |-> <<>>,
             preOffset |-> 0, preBytes |-> <<>>, preLimit |-> 0, preLimited |-> FALSE,
             ok |-> TRUE, ret |-> 0, sent |-> 0, late |-> 0, pulled |-> 0]

\* Writer::new(&mut sink); `held` is the number of bytes the sink held before,
\* `writer.bytes` are the bytes it gets from this writer
Init ==
  /\ \E lim \in 0 .. MaxCap, ld \in BOOLEAN :
        /\ (~ld) => lim = 0
        /\ writer = [bytes |-> <<>>, limit |-> lim, limited |-> ld]
  /\ held \in 0 .. MaxHeld
  /\ offset = 0
  /\ partial \in BOOLEAN
  /\ recover \in BOOLEAN
  /\ calls = 0
  /\ lens = 0
  /\ failed = FALSE
  /\ sum = 0
  /\ last = [op |-> "new", T |-> NoType, items |-> <<>>,
             preOffset |-> 0, preBytes |-> <<>>, preLimit |-> 0, preLimited |-> FALSE,
             ok |-> TRUE, ret |-> 0, sent |-> 0, late |-> 0, pulled |-> 0]

Write ==
  /\ calls < MaxCalls
  /\ \E T \in Types, v \in Vals :
        Commit("write", T, <<v>>, write(Self, T, v))

WriteIter ==
  /\ calls < MaxCalls
  /\ \E T \in Types, items \in Items :
        Commit("write_iter", T, items, write_iter(Self, T, items))

LenCall ==
  /\ lens < MaxLens
  /\ lens' = lens + 1
  /\ last' = [Record("len", NoType, <<>>, [Self EXCEPT !.ret = len(Self)])
                EXCEPT !.preLimit = 0, !.preLimited = FALSE]
  /\ UNCHANGED <<writer, offset, held, partial, recover, calls, failed, sum>>

Next == Write \/ WriteIter \/ LenCall

Spec == Init /\ [][Next]_vars

TypeOK ==
  /\ offset \in Nat
  /\ calls \in 0 .. MaxCalls
  /\ writer.limit \in 0 .. MaxCap

\* ---- vocabulary of the properties ----
Zeros(n) == [i \in 1 .. n |-> 0]

IsPrefix(s, t) == Len(s) <= Len(t) /\ SubSeq(t, 1, Len(s)) = s

Alignments == {1, 2, 4, 8, 16}

\* the alignment and size of the type of the last call, its pre-call offset
\* and the padding (A - o mod A) mod A it calls for
LastA == last.T.A
LastS == last.T.S
LastO == last.preOffset
LastP == (LastA - (LastO % LastA)) % LastA

IsWrite == last.op = "write"
IsWriteIter == last.op = "write_iter"
IsCall == IsWrite \/ IsWriteIter

\* C1: a successful write at offset o of a value of alignment A and size S
\* appends exactly p = (A - o mod A) mod A zero bytes and then the S bytes of
\* the value, returns o + p and leaves len() = o + p + S.
C1_WriteLayout ==
  (IsWrite /\ last.ok) =>
     /\ writer.bytes = last.preBytes \o Zeros(LastP) \o bytes_of(last.items[1], LastS)
     /\ Len(writer.bytes) = Len(last.preBytes) + LastP + LastS
     /\ last.ret = LastO + LastP
     /\ len(Self) = LastO + LastP + LastS

C1_Witness ==
  /\ IsWrite /\ last.ok
  /\ LastP = 12 /\ LastS = 28
  /\ last.items[1] # 0

\* C2: align_offset(o, a) is in [0, a) and o + align_offset(o, a) is a multiple
\* of a, for every offset in the 16 bytes from the current offset (0 at first)
\* and every power-of-two alignment; the offset a successful write, or a
\* successful write_iter of a non-empty sequence, returns is the smallest
\* multiple of the type's alignment that is >= the pre-call offset.
C2_Aligned ==
  /\ \A o \in offset .. (offset + 16), a \in Alignments :
        /\ align_offset(o, a) \in 0 .. (a - 1)
        /\ (o + align_offset(o, a)) % a = 0
  /\ (IsCall /\ last.ok /\ last.items # <<>>) =>
        /\ last.ret % LastA = 0
        /\ last.ret >= LastO
        /\ \A m \in LastO .. last.ret : (m % LastA = 0) => m = last.ret

C2_Witness ==
  /\ IsWriteIter /\ last.ok /\ Len(last.items) = 2
  /\ LastO % LastA # 0
  /\ last.ret = 16 /\ LastO = 12

\* C3: as long as every write and write_iter call on the writer succeeded,
\* len() is the sum, in call order, of each written value's padding plus size
\* and is the number of bytes the sink received.
C3_LenIsSum ==
  (~failed) => (len(Self) = sum /\ len(Self) = Len(writer.bytes))

C3_Witness ==
  /\ ~failed /\ calls = 2 /\ IsWriteIter
  /\ Len(last.items) = 2 /\ LastP > 0 /\ LastS % LastA # 0
  /\ sum > LastO + 2 * LastS

\* C4: write_iter over an empty sequence returns Ok with the pre-call offset,
\* leaves len() and the sink unchanged and issues no write to the sink, also
\* when the offset is unaligned for the type and the sink would reject any
\* write.
C4_EmptyIter ==
  (IsWriteIter /\ last.items = <<>>) =>
     /\ last.ok
     /\ last.ret = LastO
     /\ len(Self) = LastO
     /\ writer.bytes = last.preBytes
     /\ last.sent = 0

C4_Witness ==
  /\ IsWriteIter /\ last.items = <<>>
  /\ LastO % LastA # 0
  /\ writer.limited /\ writer.limit = 0 /\ last.preLimit = 0

\* C5: a successful write_iter over a non-empty sequence returns the offset of
\* the first item's first byte, the pre-call offset plus the first item's
\* padding, however many items follow.
C5_IterReturnsFirst ==
  (IsWriteIter /\ last.ok /\ last.items # <<>>) =>
     /\ last.ret = LastO + LastP
     /\ (LastP > 0 => last.ret # LastO)
     /\ last.ret + LastS <= len(Self)
     /\ SubSeq(writer.bytes, Len(last.preBytes) + LastP + 1,
                              Len(last.preBytes) + LastP + LastS)
           = bytes_of(last.items[1], LastS)

C5_Witness ==
  /\ IsWriteIter /\ last.ok /\ Len(last.items) = 2
  /\ LastP > 0
  /\ last.items[1] # last.items[2]

\* the writer as it was when the last call started
Pre ==
  [bytes |-> last.preBytes, limit |-> last.preLimit, limited |-> last.preLimited,
   offset |-> last.preOffset, ok |-> TRUE, ret |-> 0, sent |-> 0, late |-> 0,
   err |-> FALSE, pulled |-> 0]

\* calling write on each item in iteration order, up to the first error
RECURSIVE write_each(_, _, _)
write_each(self, T, items) ==
  IF items = <<>> THEN self
  ELSE LET r == write(self, T, items[1])
       IN  IF r.ok THEN write_each(r, T, SubSeq(items, 2, Len(items))) ELSE r

\* C6: write_iter(items) leaves the sink, the offset and the success or failure
\* that calling write on each item in order, from the same writer and sink,
\* leaves.
C6_IterIsEachWrite ==
  IsWriteIter =>
     LET e == write_each(Pre, last.T, last.items)
     IN  /\ writer.bytes = e.bytes
         /\ writer.limit = e.limit /\ writer.limited = e.limited
         /\ len(Self) = e.offset
         /\ last.ok = e.ok

C6_Witness ==
  /\ IsWriteIter /\ ~last.ok /\ Len(last.items) = 2
  /\ offset >= LastO + LastP + LastS
  /\ Len(writer.bytes) > offset

\* C7: on a sink that accepts N more bytes and then rejects, a write succeeds
\* exactly when its padding plus value end at or before byte N; the write that
\* would cross byte N returns an error, the sink holds no byte beyond N, a
\* failed padding run is followed by no value byte, and no write_all is issued
\* after the rejected one.
C7_FailAtBoundary ==
  (IsWrite /\ last.preLimited) =>
     /\ last.ok <=> (LastP + LastS <= last.preLimit)
     /\ (~last.ok) =>
           /\ last.late = 0
           /\ Len(writer.bytes) <= Len(last.preBytes) + last.preLimit
           /\ last.sent <= LastP + 1
           /\ (last.preLimit < LastP) =>
                 /\ writer.bytes = last.preBytes \o Zeros(last.preLimit)
                 /\ last.sent = last.preLimit + 1

C7_Witness ==
  /\ IsWrite /\ ~last.ok /\ last.preLimited
  /\ LastO > 0
  /\ 0 < last.preLimit /\ last.preLimit < LastP

\* the bytes of the failing item that the sink accepted although the call
\* failed: the zeros of an unfinished padding run, or the part of a rejected
\* value that a sink keeping partial writes kept
RECURSIVE Stray(_, _, _, _)
Stray(lim, o, T, n) ==
  IF n = 0 THEN 0
  ELSE LET p == (T.A - (o % T.A)) % T.A
       IN  IF lim < p THEN lim
           ELSE IF lim - p < T.S THEN (IF partial THEN lim - p ELSE 0)
           ELSE Stray(lim - p - T.S, o + p + T.S, T, n - 1)

\* C8 as stated: after a failed call len() differs from the number of bytes
\* the sink accepted.
C8_Original ==
  (IsCall /\ ~last.ok) => len(Self) # Len(writer.bytes)

\* C8 amended: after a failed call len() never exceeds the number of bytes the
\* sink accepted, and the call widens the distance between the two by exactly
\* the bytes of the failing item that the sink accepted; when there are none,
\* len() still agrees with the sink.
C8_FailGap ==
  (IsCall /\ ~last.ok) =>
     /\ len(Self) <= Len(writer.bytes)
     /\ (Len(writer.bytes) - len(Self)) - (Len(last.preBytes) - LastO)
           = Stray(last.preLimit, LastO, last.T, Len(last.items))

C8_Witness ==
  /\ IsWrite /\ ~last.ok
  /\ LastO = Len(last.preBytes) /\ LastO > 0
  /\ last.preLimit > LastP
  /\ Len(writer.bytes) > len(Self)

\* C9 as stated: once a call has returned an error, len() never again agrees
\* with the sink's contents.
C9_Original ==
  failed => len(Self) # Len(writer.bytes)

\* C9 amended: the distance between the sink's byte count and len() never
\* shrinks, so once they disagree no later write, write_iter or len call
\* brings them back into agreement.
C9_GapNeverShrinks ==
  [][ /\ Len(writer'.bytes) - offset' >= Len(writer.bytes) - offset
      /\ (Len(writer.bytes) # offset) => (Len(writer'.bytes) # offset') ]_vars

C9_Witness ==
  /\ failed /\ IsWrite /\ last.ok /\ LastS > 0
  /\ Len(last.preBytes) > LastO
  /\ Len(writer.bytes) > offset

\* what a call at offset o sends for the items, in order: for each item its
\* padding, then its value
RECURSIVE Emission(_, _, _)
Emission(o, T, items) ==
  IF items = <<>> THEN <<>>
  ELSE LET p == (T.A - (o % T.A)) % T.A
       IN  Zeros(p) \o bytes_of(items[1], T.S)
             \o Emission(o + p + T.S, T, SubSeq(items, 2, Len(items)))

\* C10: a call only appends: the sink before the call is a prefix of the sink
\* after it, and what the call added is a prefix (all of it, when the call
\* succeeded) of padding-then-value of each item in iteration order.
C10_AppendOnly ==
  IsCall =>
     LET all == last.preBytes \o Emission(LastO, last.T, last.items)
     IN  /\ IsPrefix(last.preBytes, writer.bytes)
         /\ IsPrefix(writer.bytes, all)
         /\ last.ok => writer.bytes = all

C10_Witness ==
  /\ IsWriteIter /\ last.ok /\ Len(last.items) = 2
  /\ last.items[1] # last.items[2]
  /\ LastP > 0 /\ last.preBytes # <<>>

\* C11: no step makes the offset smaller, whether the call succeeds or fails,
\* and a successful write of a value of non-zero size makes it larger.
C11_OffsetMonotone ==
  [][ /\ offset' >= offset
      /\ (calls' # calls /\ last'.op = "write" /\ last'.ok /\ last'.T.S > 0)
            => offset' > offset ]_vars

C11_Witness ==
  /\ IsWriteIter /\ ~last.ok /\ Len(last.items) = 2
  /\ failed /\ calls = 2
  /\ len(Self) > LastO /\ LastO > 0

\* C12: on a fresh writer a 4-byte, alignment-4 count is written at [0,4) and
\* returns 0; a following struct of alignment 16 and size 28 gets 12 zero
\* bytes at [4,16), returns 16, lies at [16,44) and leaves len() = 44.
C12_LengthPrefixed ==
  /\ (calls = 1 /\ IsWrite /\ last.ok /\ last.T = [A |-> 4, S |-> 4]) =>
        /\ last.ret = 0
        /\ writer.bytes = bytes_of(last.items[1], 4)
        /\ len(Self) = 4
  /\ (calls = 2 /\ IsWrite /\ last.ok /\ ~failed /\ LastO = 4
         /\ last.T = [A |-> 16, S |-> 28]) =>
        /\ last.ret = 16
        /\ Len(writer.bytes) = 44
        /\ SubSeq(writer.bytes, 1, 4) = last.preBytes
        /\ SubSeq(writer.bytes, 5, 16) = Zeros(12)
        /\ SubSeq(writer.bytes, 17, 44) = bytes_of(last.items[1], 28)
        /\ len(Self) = 44

C12_Witness ==
  /\ calls = 2 /\ IsWrite /\ last.ok /\ ~failed
  /\ last.T = [A |-> 16, S |-> 28] /\ last.items = <<1>>
  /\ last.preBytes = <<1, 2, 3, 4>>
  /\ len(Self) = 44

\* the element stride: the size rounded up to a multiple of the alignment
Stride(T) == ((T.S + T.A - 1) \div T.A) * T.A

\* C15: a successful write_iter of n >= 1 items puts item i at
\* first + i * stride (first the returned offset, stride the size rounded up to
\* the alignment), fills the space between the items with zeros and leaves
\* len() = first + (n - 1) * stride + S: nothing follows the last item.
C15_StrideNoTrailingPad ==
  (IsWriteIter /\ last.ok /\ last.items # <<>>) =>
     LET n    == Len(last.items)
         base == Len(last.preBytes) + (last.ret - LastO)
     IN  /\ len(Self) = last.ret + (n - 1) * Stride(last.T) + LastS
         /\ Len(writer.bytes) = base + (n - 1) * Stride(last.T) + LastS
         /\ \A i \in 0 .. (n - 1) :
               /\ SubSeq(writer.bytes, base + i * Stride(last.T) + 1,
                                        base + i * Stride(last.T) + LastS)
                     = bytes_of(last.items[i + 1], LastS)
               /\ (i > 0) =>
                     SubSeq(writer.bytes, base + (i - 1) * Stride(last.T) + LastS + 1,
                                          base + i * Stride(last.T))
                       = Zeros(Stride(last.T) - LastS)

C15_Witness ==
  /\ IsWriteIter /\ last.ok /\ Len(last.items) = 2
  /\ LastS = 12 /\ Stride(last.T) = 16
  /\ len(Self) % LastA # 0
  /\ last.items[2] # 0

\* C17: in every state, also after failed calls, len() is at most the number
\* of bytes the sink accepted from this writer.
C17_LenWithinSink ==
  offset <= Len(writer.bytes)

C17_Witness ==
  /\ failed /\ calls = 2 /\ IsCall /\ ~last.ok
  /\ Len(last.preBytes) > LastO /\ LastO > 0
  /\ offset < Len(writer.bytes)

\* C18: a write that fails while its padding is written leaves len() at its
\* pre-call value, with the zeros that were accepted in the sink; a write that
\* fails at its value leaves len() at the pre-call offset plus the whole
\* padding, without the size.
C18_TwoStepOffset ==
  (IsWrite /\ ~last.ok) =>
     /\ (last.sent <= LastP) =>
           /\ len(Self) = LastO
           /\ writer.bytes = last.preBytes \o Zeros(last.sent - 1)
     /\ (last.sent > LastP) =>
           /\ last.sent = LastP + 1
           /\ len(Self) = LastO + LastP
           /\ SubSeq(writer.bytes, 1, Len(last.preBytes) + LastP)
                 = last.preBytes \o Zeros(LastP)
           /\ Len(writer.bytes) < Len(last.preBytes) + LastP + LastS

C18_Witness ==
  /\ IsWrite /\ ~last.ok
  /\ LastP > 0 /\ last.sent = LastP + 1
  /\ len(Self) = LastO + LastP

\* C19: a write issued when the offset already disagrees with the sink is
\* not refused: it writes to the sink, pads by the stale offset, and when it
\* succeeds its value lies in the sink at old sink length + padding while the
\* call returns stale offset + padding, a different position.
C19_NoFailedFlag ==
  (IsWrite /\ Len(last.preBytes) # LastO) =>
     /\ last.sent >= 1
     /\ last.ok =>
           /\ last.sent = LastP + 1
           /\ last.ret = LastO + LastP
           /\ SubSeq(writer.bytes, Len(last.preBytes) + LastP + 1,
                                    Len(last.preBytes) + LastP + LastS)
                 = bytes_of(last.items[1], LastS)
           /\ Len(last.preBytes) + LastP # last.ret

C19_Witness ==
  /\ IsWrite /\ last.ok /\ failed
  /\ Len(last.preBytes) # LastO
  /\ (Len(last.preBytes) + LastP) % LastA # 0
  /\ last.ret % LastA = 0

\* C13: a len() call, in an open or a failed writer, returns the current
\* offset and changes neither the offset nor the sink; a len() call right after
\* a len() call returns the same value.
C13_LenPure ==
  [][ (lens' # lens /\ last'.op = "len") =>
         /\ last'.ret = offset
         /\ offset' = offset
         /\ writer' = writer /\ held' = held
         /\ (last.op = "len") => (last'.ret = last.ret) ]_vars

C13_Witness ==
  /\ last.op = "len" /\ lens = 2
  /\ failed /\ offset > 0
  /\ Len(writer.bytes) > offset
  /\ last.ret = offset

\* C14: a new writer has len() = 0 whatever the sink already holds, and making
\* it sends nothing to the sink; the first write or write_iter on it starts at
\* offset 0, needs no padding and, when it succeeds, returns 0.
C14_NewIsZero ==
  /\ (last.op = "new") =>
        /\ len(Self) = 0
        /\ writer.bytes = <<>>
        /\ last.sent = 0
  /\ (calls = 1 /\ IsCall) =>
        /\ LastO = 0 /\ LastP = 0
        /\ last.preBytes = <<>>
        /\ last.ok => last.ret = 0
        /\ (last.ok /\ last.items # <<>>) =>
              SubSeq(writer.bytes, 1, LastS) = bytes_of(last.items[1], LastS)

C14_Witness ==
  /\ calls = 1 /\ IsWrite /\ last.ok
  /\ held > 0
  /\ LastA = 16 /\ last.ret = 0

\* the index of the item at which a call on a sink with room for lim more
\* bytes fails, 0 when all n items fit
RECURSIVE FailAt(_, _, _, _, _)
FailAt(lim, o, T, n, i) ==
  IF i > n THEN 0
  ELSE LET c == ((T.A - (o % T.A)) % T.A) + T.S
       IN  IF lim < c THEN i ELSE FailAt(lim - c, o + c, T, n, i + 1)

====
